---------------------------- MODULE Spec2Model ----------------------------
(***************************************************************************)
(* Model of the provider-orchestration core of AI-UI-Ethics-Evaluations:   *)
(*   - ui_assessment.py          (adapters, response parsing, the runner)  *)
(*   - run_multiple_assessments.py (the sweep orchestrator, usage ledger)  *)
(*                                                                         *)
(* A model reply is a sequence of tokens.  Each token stands for a piece   *)
(* of text: "{" and "}" are the brace characters, "A{" is the text         *)
(* '"assessment": {' (a key followed by an opening brace), "s1" and "s2"   *)
(* are the members '"s1": 5' and '"s2": 5' of a score mapping, and "p" is  *)
(* a piece of prose without braces.  "x2" is the member '"s2": 9', a score *)
(* outside the range of the rubric.                                        *)
(***************************************************************************)
EXTENDS Integers, Sequences, FiniteSets, TLC

VARIABLES
    \* ---- ui_assessment.py: one run (one process) ----
    pc,             \* position of main / run_assessment / process_interface
    ai_service,     \* --ai_service
    args,           \* --model, --temperature and --repeat
    api_key,        \* TRUE iff the provider's key is in the environment
    ueeq_scales,    \* config["assessment"]["ueeq_scales"] (names, in order)
    interfaces,     \* the loaded artifact set (sequence of ids)
    idx,            \* position of the for loop of run_assessment
    attempt,        \* loop variable of the retry loop of call_openai_gpt4v
    response,       \* what the adapter returned to process_interface
    result,         \* what process_interface returned (<<>> is None)
    results,        \* self.results
    log,            \* the logger's records, in order
    backend,        \* what the backend answers to the successive calls
                    \* made for the current artifact
    calls,          \* the outbound calls the backend received, in order
    timeline,       \* the outbound calls and the time.sleep calls, in order
    sink,           \* the run's output file: <<>> (no file) or <<table>>
    exit_code,      \* exit code of main (-1 while running)
    \* ---- run_multiple_assessments.py: one sweep ----
    spc,            \* position of the sweep
    ai_services,    \* config["ai_services"]: sequence of [name, models]
    temperatures,   \* --temperatures
    repeats,        \* --repeats
    selected_services, \* --services ({} when not given)
    selected_models,   \* --models   ({} when not given)
    interfaces_ok,  \* the artifact-set file is readable
    env_keys,       \* the providers whose key is in the environment
    num_interfaces, \* count_interfaces(interfaces_path)
    cur,            \* loop counters <<service, model, temperature, repeat>>
    invoked,        \* the subprocess invocations so far, in order
    usage_file,     \* lines of api_usage.csv (<<>> = file absent)
    output_dir,     \* the result files in --output_dir
    sweep_log,      \* the orchestrator's log records, in order
    faults,         \* runs that failed on a transient fault so far
    sweep_exit,     \* exit code of the sweep command (-1 while running)
    \* ---- the same command run a second time ----
    first_run,      \* <<>>, or <<what the first run of the command left>>
    \* ---- run_all.py: the pipeline driver ----
    dpc,            \* position of main of the driver
    pipeline,       \* the stages the driver started and how they ended
    report,         \* TRUE iff assessment_report.md is written
    driver_exit     \* exit code of the driver (-1 while running)

run_vars == <<pc, ai_service, args, api_key, ueeq_scales, interfaces, idx, attempt,
              response, result, results, log, backend, calls, timeline, sink,
              exit_code>>
sweep_vars == <<spc, ai_services, temperatures, repeats, selected_services,
                selected_models, interfaces_ok, env_keys, num_interfaces, cur,
                invoked, usage_file, output_dir, sweep_log, faults, sweep_exit>>
rerun_vars == <<first_run>>
driver_vars == <<dpc, pipeline, report, driver_exit>>
vars == <<run_vars, sweep_vars, rerun_vars, driver_vars>>

---------------------------------------------------------------------------
(* Bounds *)
MaxReplyLen == 6        \* longest reply explored by the parser specification
MaxArtifacts == 2       \* largest artifact set of a run
MaxTemps == 2           \* longest --temperatures list
MaxRepeats == 2         \* largest --repeats
MaxFaults == 1          \* most runs of a sweep that fail on a transient fault
                        \* or end without a result

(* Program constants *)
max_retries == 3
retry_delay == 5

Scales == {"s1", "s2"}
Tokens == {"{", "}", "A{", "s1", "s2", "p"}
KnownServices == {"anthropic", "openai", "qwen", "ollama"}

\* the tokens that are members of a score mapping, with the key and the
\* value of each
MemberTokens == {"s1", "s2", "x2"}
MemberName(tok) == IF tok = "x2" THEN "s2" ELSE tok
MemberValue(tok) == IF tok = "x2" THEN 9 ELSE 5

\* the scores the prompt asks for (lines 88 and 96): 1 to 7, or -1
ValidScores == (1..7) \cup {-1}

---------------------------------------------------------------------------
(* Text helpers: str.find, str.rfind, slicing *)

HasOpen(t) == t \in {"{", "A{"}
HasClose(t) == t = "}"

\* response.find('{'): index of the first token holding '{', 0-based in
\* Python; here 1-based, 0 when there is none (Python's -1).
find_open(text) ==
    IF \E i \in 1..Len(text) : HasOpen(text[i])
    THEN CHOOSE i \in 1..Len(text) :
            HasOpen(text[i]) /\ \A j \in 1..(i-1) : ~HasOpen(text[j])
    ELSE 0

\* response.rfind('}'): index of the last '}', 0 when there is none.
rfind_close(text) ==
    IF \E i \in 1..Len(text) : HasClose(text[i])
    THEN CHOOSE i \in 1..Len(text) :
            HasClose(text[i]) /\ \A j \in (i+1)..Len(text) : ~HasClose(text[j])
    ELSE 0

\* response[json_start:json_end], cut at the brace characters: when the
\* first brace is the one inside "A{", the key text before it is cut off.
Slice(text, first, last) ==
    [i \in 1..(last - first + 1) |->
        IF i = 1 /\ text[first] = "A{" THEN "{" ELSE text[first + i - 1]]

---------------------------------------------------------------------------
(* json.loads on a token sequence.  A decoded object is a record           *)
(*   keys : the scale names that are members of the object                 *)
(*   vals : the value of each of these members (a function on keys)        *)
(*   sub  : <<>> or <<o>>, o the decoded value of its "assessment" member  *)

EmptyObj == [keys |-> {}, vals |-> <<>>, sub |-> <<>>]

\* a member is added to a dict: a key that occurs again replaces the value
SetMember(acc, tok) ==
    [acc EXCEPT !.keys = @ \cup {MemberName(tok)},
                !.vals = [k \in acc.keys \cup {MemberName(tok)} |->
                            IF k = MemberName(tok) THEN MemberValue(tok)
                            ELSE acc.vals[k]]]
DecodeFail == [ok |-> FALSE, obj |-> EmptyObj, next |-> 0]

RECURSIVE ParseMembers(_, _, _)
ParseMembers(toks, i, acc) ==
    IF i > Len(toks) THEN DecodeFail
    ELSE IF toks[i] = "}" THEN [ok |-> TRUE, obj |-> acc, next |-> i + 1]
    ELSE IF toks[i] \in MemberTokens
         THEN ParseMembers(toks, i + 1, SetMember(acc, toks[i]))
    ELSE IF toks[i] = "A{"
         THEN LET inner == ParseMembers(toks, i + 1, EmptyObj)
              IN IF inner.ok
                 THEN ParseMembers(toks, inner.next,
                                   [acc EXCEPT !.sub = <<inner.obj>>])
                 ELSE DecodeFail
    ELSE DecodeFail

\* json.loads(json_str): the whole string must be exactly one object.
json_loads(toks) ==
    IF Len(toks) = 0 \/ toks[1] # "{" THEN DecodeFail
    ELSE LET r == ParseMembers(toks, 2, EmptyObj)
         IN IF r.ok /\ r.next = Len(toks) + 1 THEN r ELSE DecodeFail

\* result.get("assessment", {}) as the set of its scale names
Assessment(obj) == IF obj.sub = <<>> THEN {} ELSE obj.sub[1].keys

\* result.get("assessment", {}) as the mapping from scale name to score
AssessmentScores(obj) == IF obj.sub = <<>> THEN <<>> ELSE obj.sub[1].vals

---------------------------------------------------------------------------
(* process_interface, lines 350-376: extract the JSON object of a reply.   *)
(* kind is "result" (obj is the decoded object) or "none" (err says which  *)
(* of the two error records is logged).                                    *)

ParseNone(err) == [kind |-> "none", obj |-> EmptyObj, err |-> err]

\* the object is cut at the first '}' instead of the last one
ParseReply_firstClose(text) ==
    LET json_start == find_open(text) - 1
        json_end == IF \E i \in 1..Len(text) : HasClose(text[i])
                    THEN CHOOSE i \in 1..Len(text) :
                            HasClose(text[i]) /\ \A j \in 1..(i-1) : ~HasClose(text[j])
                    ELSE 0
    IN IF json_start >= 0 /\ json_end > json_start
       THEN LET d == json_loads(Slice(text, json_start + 1, json_end))
            IN IF d.ok THEN [kind |-> "result", obj |-> d.obj, err |-> ""]
               ELSE ParseNone("json_error")
       ELSE ParseNone("no_json")

\* the whole reply is decoded: json.loads(response), no search for braces
ParseReply_noProse(text) ==
    LET d == json_loads(text)
    IN IF d.ok THEN [kind |-> "result", obj |-> d.obj, err |-> ""]
       ELSE ParseNone("json_error")

ParseReply(text) ==
    LET json_start == find_open(text) - 1      \* Python's 0-based index
        json_end == rfind_close(text)          \* rfind('}') + 1
    IN IF json_start >= 0 /\ json_end > json_start
       THEN LET d == json_loads(Slice(text, json_start + 1, json_end))
            IN IF d.ok THEN [kind |-> "result", obj |-> d.obj, err |-> ""]
               ELSE ParseNone("json_error")
       ELSE ParseNone("no_json")

---------------------------------------------------------------------------
(* ui_assessment.py: one run *)

NoResponse == [none |-> TRUE, text |-> <<>>]
Text(t) == [none |-> FALSE, text |-> t]

Rec(kind) == [kind |-> kind, iter |-> idx]

\* replies a backend gives in the run specification
ReplyEmpty == <<>>                                       \* empty text
ReplyProse == <<"{", "p", "}">>                          \* braces around prose
ReplyPartial == <<"{", "A{", "s1", "}", "}">>            \* scale s2 missing
ReplyFull == <<"p", "{", "A{", "s1", "s2", "}", "}", "p">> \* the requested object
ReplyOutOfRange == <<"{", "A{", "s1", "x2", "}", "}">>   \* a score of 9 for s2
RunReplies == {ReplyEmpty, ReplyProse, ReplyPartial, ReplyFull, ReplyOutOfRange}

RateLimit == [kind |-> "rate limit", text |-> <<>>]
Reply(r) == [kind |-> "reply", text |-> r]

\* how a call can end other than with a rate-limit error
FinalOutcomes ==
    {Reply(r) : r \in RunReplies}
    \cup {[kind |-> k, text |-> <<>>] : k \in {"error", "malformed"}}

\* a backend: rate-limit errors on its first K calls, then another outcome;
\* or rate-limit errors on every call an adapter can make
Scripts ==
    {[i \in 1..(k + 1) |-> IF i <= k THEN RateLimit ELSE o] :
        k \in 0..(max_retries - 1), o \in FinalOutcomes}
    \cup {[i \in 1..max_retries |-> RateLimit]}

\* the events of the timeline: an outbound call of an adapter, and a call of
\* time.sleep with its argument, both made for the artifact at position idx
CallEvent == [kind |-> "call", iter |-> idx, secs |-> 0]
Sleep(secs) == [kind |-> "sleep", iter |-> idx, secs |-> secs]

\* the calls made so far for the artifact at position i
CallsFor(i) == SelectSeq(calls, LAMBDA c : c.iter = i)

\* main, lines 443-461: argparse, UIAssessmentSystem(...), open(interfaces)
StartRun(files_ok) ==
    /\ pc = "start"
    /\ IF ai_service \notin KnownServices
       THEN /\ exit_code' = 2              \* argparse: invalid choice
            /\ pc' = "exit"
            /\ log' = log
       ELSE IF ~files_ok
       THEN /\ exit_code' = 1
            /\ pc' = "exit"
            /\ log' = Append(Append(log, Rec("run_error")), Rec("main_error"))
       ELSE /\ exit_code' = exit_code
            /\ pc' = IF Len(interfaces) = 0 THEN "save" ELSE "loop"
            /\ log' = Append(log, Rec("starting"))
    /\ UNCHANGED <<ai_service, args, api_key, ueeq_scales, interfaces, idx, attempt,
                   response, result, results, backend, calls, timeline, sink>>

\* the adapter's ValueError for a missing key is not caught: it ends the run
BeginInterface_fatal(script) ==
    /\ pc = "loop"
    /\ idx <= Len(interfaces)
    /\ backend' = script
    /\ IF ai_service \notin KnownServices
       THEN /\ log' = Append(log, Rec("unknown_service"))
            /\ result' = <<>>
            /\ pc' = "append"
            /\ exit_code' = exit_code
       ELSE IF ai_service # "ollama" /\ ~api_key
       THEN /\ log' = log \o <<Rec("calling"), Rec("key_missing"),
                               Rec("run_error"), Rec("main_error")>>
            /\ result' = <<>>
            /\ pc' = "exit"
            /\ exit_code' = 1
       ELSE /\ log' = Append(log, Rec("calling"))
            /\ result' = result
            /\ pc' = "call"
            /\ exit_code' = exit_code
    /\ attempt' = 0
    /\ UNCHANGED <<ai_service, args, api_key, ueeq_scales, interfaces, idx,
                   response, results, calls, timeline, sink>>

\* process_interface, lines 326-344, up to the adapter's first outbound call
BeginInterface(script) ==
    /\ pc = "loop"
    /\ idx <= Len(interfaces)
    /\ backend' = script
    /\ IF ai_service \notin KnownServices
       THEN /\ log' = Append(log, Rec("unknown_service"))
            /\ result' = <<>>
            /\ pc' = "append"
       ELSE IF ai_service # "ollama" /\ ~api_key
       THEN \* the adapter raises ValueError; line 378 catches it
            /\ log' = log \o <<Rec("calling"), Rec("key_missing"),
                               Rec("processing_error")>>
            /\ result' = <<>>
            /\ pc' = "append"
       ELSE /\ log' = Append(log, Rec("calling"))
            /\ result' = result
            /\ pc' = "call"
    /\ attempt' = 0
    /\ UNCHANGED <<ai_service, args, api_key, ueeq_scales, interfaces, idx,
                   response, results, calls, timeline, sink, exit_code>>

\* call_openai_gpt4v, line 228: the exponential backoff of the retry loop
wait_time(n) == retry_delay * (2 ^ n)

\* the adapter retries after any error, not only after a rate-limit error
OpenAICall_retriesAll(o) ==
    IF o.kind = "reply"
    THEN /\ response' = Text(o.text)
         /\ pc' = "respond"
         /\ attempt' = attempt
         /\ log' = log
         /\ timeline' = Append(timeline, CallEvent)
    ELSE /\ attempt' = attempt + 1
         /\ timeline' = timeline \o <<CallEvent, Sleep(wait_time(attempt))>>
         /\ IF attempt + 1 < max_retries
            THEN /\ log' = log \o <<Rec("api_failed"), Rec("rate_wait")>>
                 /\ pc' = "call"
                 /\ response' = response
            ELSE /\ log' = log \o <<Rec("api_failed"), Rec("rate_wait"),
                                    Rec("all_retries_failed")>>
                 /\ pc' = "respond"
                 /\ response' = NoResponse

\* the adapter without its retry loop: any error ends the call
OpenAICall_noRetry(o) ==
    IF o.kind = "reply"
    THEN /\ response' = Text(o.text)
         /\ pc' = "respond"
         /\ attempt' = attempt
         /\ log' = log
         /\ timeline' = Append(timeline, CallEvent)
    ELSE /\ log' = Append(log, Rec("api_failed"))
         /\ response' = NoResponse
         /\ pc' = "respond"
         /\ attempt' = attempt
         /\ timeline' = Append(timeline, CallEvent)

\* call_openai_gpt4v, lines 211-236: one pass of the retry loop
OpenAICall(o) ==
    IF o.kind = "reply"
    THEN /\ response' = Text(o.text)
         /\ pc' = "respond"
         /\ attempt' = attempt
         /\ log' = log
         /\ timeline' = Append(timeline, CallEvent)
    ELSE IF o.kind = "rate limit"
    THEN /\ attempt' = attempt + 1
         /\ timeline' = timeline \o <<CallEvent, Sleep(wait_time(attempt))>>
         /\ IF attempt + 1 < max_retries
            THEN /\ log' = log \o <<Rec("api_failed"), Rec("rate_wait")>>
                 /\ pc' = "call"
                 /\ response' = response
            ELSE /\ log' = log \o <<Rec("api_failed"), Rec("rate_wait"),
                                    Rec("all_retries_failed")>>
                 /\ pc' = "respond"
                 /\ response' = NoResponse
    ELSE /\ log' = Append(log, Rec("api_failed"))
         /\ response' = NoResponse
         /\ pc' = "respond"
         /\ attempt' = attempt
         /\ timeline' = Append(timeline, CallEvent)

\* call_anthropic_claude 161-171, call_qwen 268-278, call_ollama 303-313
SingleCall(o) ==
    /\ attempt' = attempt
    /\ timeline' = Append(timeline, CallEvent)
    /\ IF o.kind = "reply"
       THEN /\ response' = Text(o.text)
            /\ pc' = "respond"
            /\ log' = log
            /\ result' = result
       ELSE IF ai_service = "ollama" /\ o.kind = "malformed"
       THEN \* KeyError/ValueError is not a RequestException: line 378
            /\ response' = response
            /\ result' = <<>>
            /\ pc' = "append"
            /\ log' = Append(log, Rec("processing_error"))
       ELSE /\ response' = NoResponse
            /\ pc' = "respond"
            /\ log' = Append(log, Rec("api_failed"))
            /\ result' = result

\* one outbound call of the selected adapter
AdapterCall ==
    /\ pc = "call"
    /\ LET o == backend[Len(CallsFor(idx)) + 1]
       IN /\ calls' = Append(calls, [iter |-> idx, kind |-> o.kind, text |-> o.text])
          /\ IF ai_service = "openai"
             THEN OpenAICall(o) /\ result' = result
             ELSE SingleCall(o)
    /\ UNCHANGED <<ai_service, args, api_key, ueeq_scales, interfaces, idx,
                   results, backend, sink, exit_code>>

\* process_interface, line 330: interface_data.get("pattern_type", "") of
\* the artifact with the identifier id
pattern_type(id) == IF id % 2 = 1 THEN "nagging" ELSE "none"

\* process_interface, lines 363-370: the metadata given to a result (the
\* timestamp, the time of the assignment, is left out)
Metadata ==
    [ai_service |-> ai_service,
     model |-> args.model,
     temperature |-> args.temperature,
     pattern_type |-> pattern_type(interfaces[idx]),
     interface_id |-> interfaces[idx]]

\* process_interface, lines 346-376
Respond ==
    /\ pc = "respond"
    /\ IF response.none \/ response.text = <<>>
       THEN /\ log' = Append(log, Rec("no_response"))
            /\ result' = <<>>
       ELSE LET p == ParseReply(response.text)
            IN IF p.kind = "result"
               THEN /\ result' = << [assessment |-> Assessment(p.obj),
                                     scores |-> AssessmentScores(p.obj),
                                     has_assessment |-> p.obj.sub # <<>>,
                                     keys |-> p.obj.keys,
                                     metadata |-> Metadata] >>
                    /\ log' = log
               ELSE /\ result' = <<>>
                    /\ log' = Append(log, Rec(p.err))
    /\ pc' = "append"
    /\ UNCHANGED <<ai_service, args, api_key, ueeq_scales, interfaces, idx, attempt,
                   response, results, backend, calls, timeline, sink, exit_code>>

\* save_results_to_csv, lines 416-430: the flat dict of one result.  The
\* columns are strings; a cell of a result file is the text written for a
\* value: <<>> is the empty cell, <<5>> the text "5" and <<5, 0>> the text
\* "5.0"; the metadata cells keep their value.
MetaColumns ==
    {"metadata_ai_service", "metadata_model", "metadata_temperature",
     "metadata_pattern_type", "metadata_interface_id"}
ScoreColumn(k) == IF k = "s1" THEN "score_s1" ELSE "score_s2"
ScoreColumns == {ScoreColumn(k) : k \in Scales}

Flatten(r) ==
    [c \in MetaColumns \cup {ScoreColumn(k) : k \in r.assessment}
            \cup {"explanation"} |->
        IF c = "metadata_ai_service" THEN r.metadata.ai_service
        ELSE IF c = "metadata_model" THEN r.metadata.model
        ELSE IF c = "metadata_temperature" THEN r.metadata.temperature
        ELSE IF c = "metadata_pattern_type" THEN r.metadata.pattern_type
        ELSE IF c = "metadata_interface_id" THEN r.metadata.interface_id
        ELSE IF c = "explanation" THEN <<>>
        ELSE r.scores[CHOOSE k \in r.assessment : ScoreColumn(k) = c]]

\* the columns are those of the first result only; a result with another
\* key is written without it
Table_firstRow(res) ==
    LET flat == [n \in 1..Len(res) |-> Flatten(res[n])]
        columns == DOMAIN flat[1]
    IN [columns |-> columns,
        rows |-> [n \in 1..Len(res) |->
                    [c \in columns |->
                        IF c \notin DOMAIN flat[n] THEN <<>>
                        ELSE IF c \in ScoreColumns THEN <<flat[n][c]>>
                        ELSE flat[n][c]]]]

\* pd.DataFrame(flattened_results).to_csv(...), lines 433-434: the columns
\* are the union of the keys of the flat dicts, a missing value is NaN and
\* is written as the empty cell, and a column of integers with a missing
\* value is a column of floats
Table(res) ==
    LET flat == [n \in 1..Len(res) |-> Flatten(res[n])]
        columns == UNION {DOMAIN flat[n] : n \in 1..Len(res)}
        gap(c) == \E n \in 1..Len(res) : c \notin DOMAIN flat[n]
    IN [columns |-> columns,
        rows |-> [n \in 1..Len(res) |->
                    [c \in columns |->
                        IF c \notin DOMAIN flat[n] THEN <<>>
                        ELSE IF c \in ScoreColumns
                             THEN IF gap(c) THEN <<flat[n][c], 0>>
                                  ELSE <<flat[n][c]>>
                        ELSE flat[n][c]]]]

\* a skipped artifact ends the loop (break) instead of passing to the next
AppendResult_break ==
    /\ pc = "append"
    /\ results' = IF result # <<>> THEN Append(results, result[1]) ELSE results
    /\ timeline' = Append(timeline, Sleep(1))     \* time.sleep(1), line 398
    /\ idx' = idx + 1
    /\ pc' = IF idx + 1 > Len(interfaces) \/ result = <<>> THEN "save" ELSE "loop"
    /\ log' = IF idx + 1 > Len(interfaces) \/ result = <<>>
              THEN Append(log, [kind |-> "completed", iter |-> idx])
              ELSE log
    /\ UNCHANGED <<ai_service, args, api_key, ueeq_scales, interfaces, attempt,
                   response, result, backend, calls, sink, exit_code>>

\* the delay is taken only after an artifact that gave a result
AppendResult_sleepInIf ==
    /\ pc = "append"
    /\ results' = IF result # <<>> THEN Append(results, result[1]) ELSE results
    /\ timeline' = IF result # <<>> THEN Append(timeline, Sleep(1)) ELSE timeline
    /\ idx' = idx + 1
    /\ pc' = IF idx + 1 > Len(interfaces) THEN "save" ELSE "loop"
    /\ log' = IF idx + 1 > Len(interfaces)
              THEN Append(log, [kind |-> "completed", iter |-> idx])
              ELSE log
    /\ UNCHANGED <<ai_service, args, api_key, ueeq_scales, interfaces, attempt,
                   response, result, backend, calls, sink, exit_code>>

\* the result file is rewritten after every artifact that gave a result
AppendResult_savesEach ==
    /\ pc = "append"
    /\ results' = IF result # <<>> THEN Append(results, result[1]) ELSE results
    /\ sink' = IF result # <<>> THEN <<Table(results')>> ELSE sink
    /\ timeline' = Append(timeline, Sleep(1))     \* time.sleep(1), line 398
    /\ idx' = idx + 1
    /\ pc' = IF idx + 1 > Len(interfaces) THEN "save" ELSE "loop"
    /\ log' = IF idx + 1 > Len(interfaces)
              THEN Append(log, [kind |-> "completed", iter |-> idx])
              ELSE log
    /\ UNCHANGED <<ai_service, args, api_key, ueeq_scales, interfaces, attempt,
                   response, result, backend, calls, exit_code>>

\* the result is put at the head of the list: results.insert(0, result)
AppendResult_prepend ==
    /\ pc = "append"
    /\ results' = IF result # <<>> THEN <<result[1]>> \o results ELSE results
    /\ timeline' = Append(timeline, Sleep(1))     \* time.sleep(1), line 398
    /\ idx' = idx + 1
    /\ pc' = IF idx + 1 > Len(interfaces) THEN "save" ELSE "loop"
    /\ log' = IF idx + 1 > Len(interfaces)
              THEN Append(log, [kind |-> "completed", iter |-> idx])
              ELSE log
    /\ UNCHANGED <<ai_service, args, api_key, ueeq_scales, interfaces, attempt,
                   response, result, backend, calls, sink, exit_code>>

\* run_assessment, lines 393-398: the rest of the loop body
AppendResult ==
    /\ pc = "append"
    /\ results' = IF result # <<>> THEN Append(results, result[1]) ELSE results
    /\ timeline' = Append(timeline, Sleep(1))     \* time.sleep(1), line 398
    /\ idx' = idx + 1
    /\ pc' = IF idx + 1 > Len(interfaces) THEN "save" ELSE "loop"
    /\ log' = IF idx + 1 > Len(interfaces)
              THEN Append(log, [kind |-> "completed", iter |-> idx])
              ELSE log
    /\ UNCHANGED <<ai_service, args, api_key, ueeq_scales, interfaces, attempt,
                   response, result, backend, calls, sink, exit_code>>

\* a run without results writes a result file without rows
SaveResults_writesEmpty(io_ok) ==
    /\ pc = "save"
    /\ IF io_ok
       THEN /\ log' = Append(log, Rec("saved"))
            /\ sink' = <<[columns |-> {}, rows |-> <<>>]>>
            /\ exit_code' = 0
       ELSE /\ log' = Append(Append(log, Rec("save_error")), Rec("main_error"))
            /\ sink' = sink
            /\ exit_code' = 1
    /\ pc' = "exit"
    /\ UNCHANGED <<ai_service, args, api_key, ueeq_scales, interfaces, idx, attempt,
                   response, result, results, backend, calls, timeline>>

\* main 463-470 with save_results_to_csv, lines 407-439
SaveResults(io_ok) ==
    /\ pc = "save"
    /\ IF results = <<>>
       THEN /\ log' = Append(log, Rec("no_results"))
            /\ sink' = sink
            /\ exit_code' = 0
       ELSE IF io_ok
       THEN /\ log' = Append(log, Rec("saved"))
            /\ sink' = <<Table(results)>>
            /\ exit_code' = 0
       ELSE /\ log' = Append(Append(log, Rec("save_error")), Rec("main_error"))
            /\ sink' = sink
            /\ exit_code' = 1
    /\ pc' = "exit"
    /\ UNCHANGED <<ai_service, args, api_key, ueeq_scales, interfaces, idx, attempt,
                   response, result, results, backend, calls, timeline>>

---------------------------------------------------------------------------
(* Specifications of one run *)

Rubrics == {<<"s1">>, <<"s1", "s2">>}
\* main, lines 446-452: --model (a model of the provider), --temperature
\* (in tenths) and --repeat
RunArgs(service) ==
    IF service \in {"anthropic", "other"}
    THEN {[model |-> "opus", temperature |-> 0, repeat |-> 1]}
    ELSE {[model |-> "gpt-4", temperature |-> 7, repeat |-> 2]}
ArtifactSets == {[i \in 1..n |-> i] : n \in 0..MaxArtifacts}
AllReplies == UNION {[1..n -> Tokens] : n \in 0..MaxReplyLen}

\* the driver is not running
DriverIdle ==
    /\ dpc = "idle"
    /\ pipeline = <<>>
    /\ report = FALSE
    /\ driver_exit = -1

\* the orchestrator is not running
SweepIdle ==
    /\ spc = "idle"
    /\ ai_services = <<>>
    /\ temperatures = <<>>
    /\ repeats = 0
    /\ selected_services = {}
    /\ selected_models = {}
    /\ interfaces_ok = TRUE
    /\ env_keys = {}
    /\ num_interfaces = 0
    /\ cur = <<1, 1, 1, 1>>
    /\ invoked = <<>>
    /\ usage_file = <<>>
    /\ output_dir = {}
    /\ sweep_log = <<>>
    /\ faults = 0
    /\ sweep_exit = -1

\* a run as the command line starts it
RunInit ==
    /\ pc = "start"
    /\ ai_service \in KnownServices \cup {"other"}
    /\ args \in RunArgs(ai_service)
    /\ api_key \in BOOLEAN
    /\ ueeq_scales \in Rubrics
    /\ interfaces \in ArtifactSets
    /\ idx = 1
    /\ attempt = 0
    /\ response = NoResponse
    /\ result = <<>>
    /\ results = <<>>
    /\ log = <<>>
    /\ backend = <<>>
    /\ calls = <<>>
    /\ timeline = <<>>
    /\ sink = <<>>
    /\ exit_code = -1
    /\ first_run = <<>>
    /\ DriverIdle
    /\ SweepIdle

RunNext ==
    \/ \E files_ok \in BOOLEAN : StartRun(files_ok) /\ UNCHANGED <<sweep_vars, rerun_vars, driver_vars>>
    \/ \E script \in Scripts : BeginInterface(script) /\ UNCHANGED <<sweep_vars, rerun_vars, driver_vars>>
    \/ AdapterCall /\ UNCHANGED <<sweep_vars, rerun_vars, driver_vars>>
    \/ Respond /\ UNCHANGED <<sweep_vars, rerun_vars, driver_vars>>
    \/ AppendResult /\ UNCHANGED <<sweep_vars, rerun_vars, driver_vars>>
    \/ \E io_ok \in BOOLEAN : SaveResults(io_ok) /\ UNCHANGED <<sweep_vars, rerun_vars, driver_vars>>

RunSpec == RunInit /\ [][RunNext]_vars

\* process_interface at line 346 of a run over one artifact: the adapter has
\* just returned an arbitrary reply
ParseInit ==
    /\ pc = "respond"
    /\ ai_service = "anthropic"
    /\ args = [model |-> "opus", temperature |-> 0, repeat |-> 1]
    /\ api_key = TRUE
    /\ ueeq_scales = <<"s1", "s2">>
    /\ interfaces = <<1>>
    /\ idx = 1
    /\ attempt = 0
    /\ response \in {Text(r) : r \in AllReplies}
    /\ result = <<>>
    /\ results = <<>>
    /\ log = <<[kind |-> "starting", iter |-> 1], [kind |-> "calling", iter |-> 1]>>
    /\ backend = <<Reply(response.text)>>
    /\ calls = <<[iter |-> 1, kind |-> "reply", text |-> response.text]>>
    /\ timeline = <<[kind |-> "call", iter |-> 1, secs |-> 0]>>
    /\ sink = <<>>
    /\ exit_code = -1
    /\ first_run = <<>>
    /\ DriverIdle
    /\ SweepIdle

ParseNext == Respond /\ UNCHANGED <<sweep_vars, rerun_vars, driver_vars>>

ParseSpec == ParseInit /\ [][ParseNext]_vars

---------------------------------------------------------------------------
(* run_multiple_assessments.py: the sweep *)

Header == [kind |-> "header"]

\* the default constants are used for every provider but anthropic: the
\* table lacks the other three providers
estimate_tokens_defaults(service, n) ==
    LET per == IF service = "anthropic" THEN [input |-> 800, output |-> 600]
               ELSE [input |-> 750, output |-> 550]
    IN [tokens_in |-> per.input * n, tokens_out |-> per.output * n]

\* estimate_tokens, lines 72-89
estimate_tokens(service, n) ==
    LET per == IF service = "anthropic" THEN [input |-> 800, output |-> 600]
               ELSE IF service \in {"openai", "qwen", "ollama"}
                    THEN [input |-> 700, output |-> 550]
               ELSE [input |-> 750, output |-> 550]
    IN [tokens_in |-> per.input * n, tokens_out |-> per.output * n]

\* model_name.replace('-', '_').replace('.', '_'), line 137
FileModel(m) == IF m = "gpt-4" THEN "gpt_4" ELSE m

\* the loop counters
ServiceAt(c) == ai_services[c[1]]
ModelAt(c) == ServiceAt(c).models[c[2]]
TempAt(c) == temperatures[c[3]]

\* line 121 and line 127: the two filters
ServiceSelected(name) == selected_services = {} \/ name \in selected_services
ModelSelected(name) == selected_models = {} \/ name \in selected_models

\* the repetition loop as range(1, repeats): one repetition short
InRepeats_short(r) == r < repeats

\* range(1, repeats + 1), line 133
InRepeats(r) == r <= repeats

\* datetime.now().strftime(...) of line 113: one value for the whole sweep
timestamp == "now"

\* lines 135-138: the path of the result file of the tuple at counters c
OutputFile(c) ==
    <<ServiceAt(c).name, FileModel(ModelAt(c)), TempAt(c), c[4], timestamp>>

\* the exit codes a run of ui_assessment.py can end with (main, 443-470):
\* 2 from argparse for a provider outside its choices, 1 when the artifact
\* set cannot be read or another exception reaches main, else 0
ExitCodes(service) ==
    IF service \notin KnownServices THEN {2}
    ELSE IF ~interfaces_ok THEN {1}
    ELSE IF faults < MaxFaults THEN {0, 1} ELSE {0}

\* the adapter of the provider needs a key (call_ollama needs none) and
\* the environment of the sweep, which its runs inherit, has none
NoKey(service) == service \in KnownServices \ {"ollama"} /\ service \notin env_keys

\* whether a run that ends with exit code `code` has written its result
\* file: save_results_to_csv returns without writing when there is no result
\* (lines 409-411), as in a run whose adapter has no key and skips every
\* artifact, and a run that fails has not reached line 434
SinkWritten(code) ==
    IF code # 0 THEN {FALSE}
    ELSE IF NoKey(ServiceAt(cur).name) THEN {FALSE}
    ELSE IF faults < MaxFaults THEN {TRUE, FALSE} ELSE {TRUE}

\* the ledger is opened for writing whether it exists or not: the header is
\* written over the rows of earlier sweeps
Setup_truncates(config_ok) ==
    /\ spc = "setup"
    /\ IF ~config_ok
       THEN /\ sweep_exit' = 1
            /\ spc' = "done"
            /\ sweep_log' = Append(sweep_log, [kind |-> "error", pos |-> cur, code |-> 1])
            /\ UNCHANGED <<usage_file, num_interfaces>>
       ELSE /\ usage_file' = <<Header>>
            /\ num_interfaces' = IF interfaces_ok THEN Len(interfaces) ELSE 0
            /\ spc' = "loop"
            /\ UNCHANGED <<sweep_exit, sweep_log>>
    /\ UNCHANGED <<env_keys, ai_services, temperatures, repeats, selected_services,
                   selected_models, interfaces_ok, cur, invoked, faults,
                   output_dir>>

\* main 203-217 with lines 103-116
Setup(config_ok) ==
    /\ spc = "setup"
    /\ IF ~config_ok
       THEN /\ sweep_exit' = 1
            /\ spc' = "done"
            /\ sweep_log' = Append(sweep_log, [kind |-> "error", pos |-> cur, code |-> 1])
            /\ UNCHANGED <<usage_file, num_interfaces>>
       ELSE /\ usage_file' = IF usage_file = <<>> THEN <<Header>> ELSE usage_file
            /\ num_interfaces' = IF interfaces_ok THEN Len(interfaces) ELSE 0
            /\ spc' = "loop"
            /\ UNCHANGED <<sweep_exit, sweep_log>>
    /\ UNCHANGED <<env_keys, ai_services, temperatures, repeats, selected_services,
                   selected_models, interfaces_ok, cur, invoked, faults,
                   output_dir>>

\* the loops as while loops whose `continue` for a filtered provider or model
\* skips the increment of the counter
LoopStep_continueStalls ==
    /\ spc = "loop"
    /\ cur[1] <= Len(ai_services)
    /\ IF ~ServiceSelected(ServiceAt(cur).name)
       THEN cur' = cur
       ELSE IF cur[2] > Len(ServiceAt(cur).models)
       THEN cur' = <<cur[1] + 1, 1, 1, 1>>
       ELSE IF ~ModelSelected(ModelAt(cur))
       THEN cur' = cur
       ELSE IF cur[3] > Len(temperatures)
       THEN cur' = <<cur[1], cur[2] + 1, 1, 1>>
       ELSE /\ ~InRepeats(cur[4])
            /\ cur' = <<cur[1], cur[2], cur[3] + 1, 1>>
    /\ UNCHANGED <<spc, env_keys, ai_services, temperatures, repeats, selected_services,
                   selected_models, interfaces_ok, num_interfaces, invoked,
                   usage_file, output_dir, sweep_log, faults, sweep_exit>>

\* lines 119-133: a loop passes to its next iteration without running a tuple
\* (a filtered provider or model, or an exhausted inner loop)
LoopStep ==
    /\ spc = "loop"
    /\ cur[1] <= Len(ai_services)
    /\ IF ~ServiceSelected(ServiceAt(cur).name)
          \/ cur[2] > Len(ServiceAt(cur).models)
       THEN cur' = <<cur[1] + 1, 1, 1, 1>>
       ELSE IF ~ModelSelected(ModelAt(cur)) \/ cur[3] > Len(temperatures)
       THEN cur' = <<cur[1], cur[2] + 1, 1, 1>>
       ELSE /\ ~InRepeats(cur[4])
            /\ cur' = <<cur[1], cur[2], cur[3] + 1, 1>>
    /\ UNCHANGED <<spc, env_keys, ai_services, temperatures, repeats, selected_services,
                   selected_models, interfaces_ok, num_interfaces, invoked,
                   usage_file, output_dir, sweep_log, faults, sweep_exit>>

\* the loops are at a tuple that passes the filters
AtTuple ==
    /\ cur[1] <= Len(ai_services)
    /\ ServiceSelected(ServiceAt(cur).name)
    /\ cur[2] <= Len(ServiceAt(cur).models)
    /\ ModelSelected(ModelAt(cur))
    /\ cur[3] <= Len(temperatures)
    /\ InRepeats(cur[4])

\* lines 134-171: the command is built and the subprocess is started
StartTuple ==
    /\ spc = "loop"
    /\ AtTuple
    /\ invoked' = Append(invoked,
            [pos |-> cur,
             ai_service |-> ServiceAt(cur).name,
             model |-> ModelAt(cur),
             temperature |-> TempAt(cur),
             run_number |-> cur[4],
             output_file |-> OutputFile(cur)])
    /\ sweep_log' = Append(sweep_log, [kind |-> "running", pos |-> cur, code |-> 0])
    /\ spc' = "running"
    /\ UNCHANGED <<env_keys, ai_services, temperatures, repeats, selected_services,
                   selected_models, interfaces_ok, num_interfaces, cur,
                   usage_file, output_dir, faults, sweep_exit>>

\* the row update_usage_tracking writes for the tuple at the loop counters
UsageRow ==
    [kind |-> "row",
     timestamp |-> "now",
     ai_service |-> ServiceAt(cur).name,
     model |-> ModelAt(cur),
     temperature |-> TempAt(cur),
     run_number |-> cur[4],
     num_interfaces |-> num_interfaces,
     tokens_in |-> estimate_tokens(ServiceAt(cur).name, num_interfaces).tokens_in,
     tokens_out |-> estimate_tokens(ServiceAt(cur).name, num_interfaces).tokens_out]

\* the two inner loops nested the other way round: the temperature loop
\* inside the repetition loop
AfterTuple_temperatureInner ==
    IF cur[3] + 1 > Len(temperatures)
    THEN <<cur[1], cur[2], 1, cur[4] + 1>>
    ELSE <<cur[1], cur[2], cur[3] + 1, cur[4]>>

\* the loop counters after the body of the innermost loop
AfterTuple == <<cur[1], cur[2], cur[3], cur[4] + 1>>

\* a failed run ends the sweep: the exception is not caught in the loop
FinishTuple_halts(code, wrote) ==
    /\ spc = "running"
    /\ code \in ExitCodes(ServiceAt(cur).name)
    /\ wrote \in SinkWritten(code)
    /\ output_dir' = IF wrote THEN output_dir \cup {OutputFile(cur)} ELSE output_dir
    /\ IF code = 0
       THEN /\ sweep_log' = Append(sweep_log, [kind |-> "completed", pos |-> cur, code |-> code])
            /\ usage_file' = Append(usage_file, UsageRow)
            /\ faults' = IF wrote \/ NoKey(ServiceAt(cur).name)
                       THEN faults ELSE faults + 1
            /\ spc' = "loop"
            /\ sweep_exit' = sweep_exit
       ELSE /\ sweep_log' = Append(sweep_log, [kind |-> "failed", pos |-> cur, code |-> code])
            /\ usage_file' = usage_file
            /\ faults' = IF code = 1 /\ interfaces_ok THEN faults + 1 ELSE faults
            /\ spc' = "done"
            /\ sweep_exit' = 1
    /\ cur' = AfterTuple
    /\ UNCHANGED <<env_keys, ai_services, temperatures, repeats, selected_services,
                   selected_models, interfaces_ok, num_interfaces, invoked>>

\* a failed run is repeated: the loops do not pass to the next tuple
FinishTuple_retriesFailed(code, wrote) ==
    /\ spc = "running"
    /\ code \in ExitCodes(ServiceAt(cur).name)
    /\ wrote \in SinkWritten(code)
    /\ output_dir' = IF wrote THEN output_dir \cup {OutputFile(cur)} ELSE output_dir
    /\ IF code = 0
       THEN /\ sweep_log' = Append(sweep_log, [kind |-> "completed", pos |-> cur, code |-> code])
            /\ usage_file' = Append(usage_file, UsageRow)
            /\ faults' = IF wrote \/ NoKey(ServiceAt(cur).name)
                       THEN faults ELSE faults + 1
            /\ cur' = AfterTuple
       ELSE /\ sweep_log' = Append(sweep_log, [kind |-> "failed", pos |-> cur, code |-> code])
            /\ usage_file' = usage_file
            /\ faults' = IF code = 1 /\ interfaces_ok THEN faults + 1 ELSE faults
            /\ cur' = cur
    /\ spc' = "loop"
    /\ UNCHANGED <<env_keys, ai_services, temperatures, repeats, selected_services,
                   selected_models, interfaces_ok, num_interfaces, invoked,
                   sweep_exit>>

\* a run that has written no result file ends the sweep: its file is opened
FinishTuple_needsSink(code, wrote) ==
    /\ spc = "running"
    /\ code \in ExitCodes(ServiceAt(cur).name)
    /\ wrote \in SinkWritten(code)
    /\ output_dir' = IF wrote THEN output_dir \cup {OutputFile(cur)} ELSE output_dir
    /\ IF code = 0
       THEN /\ sweep_log' = Append(sweep_log, [kind |-> "completed", pos |-> cur, code |-> code])
            /\ usage_file' = Append(usage_file, UsageRow)
            /\ faults' = IF wrote \/ NoKey(ServiceAt(cur).name)
                       THEN faults ELSE faults + 1
            /\ spc' = IF wrote THEN "loop" ELSE "done"
            /\ sweep_exit' = IF wrote THEN sweep_exit ELSE 1
       ELSE /\ sweep_log' = Append(sweep_log, [kind |-> "failed", pos |-> cur, code |-> code])
            /\ usage_file' = usage_file
            /\ faults' = IF code = 1 /\ interfaces_ok THEN faults + 1 ELSE faults
            /\ spc' = "loop"
            /\ sweep_exit' = sweep_exit
    /\ cur' = AfterTuple
    /\ UNCHANGED <<env_keys, ai_services, temperatures, repeats, selected_services,
                   selected_models, interfaces_ok, num_interfaces, invoked>>

\* the usage row is written whatever the exit code of the run
FinishTuple_alwaysRecords(code, wrote) ==
    /\ spc = "running"
    /\ code \in ExitCodes(ServiceAt(cur).name)
    /\ wrote \in SinkWritten(code)
    /\ output_dir' = IF wrote THEN output_dir \cup {OutputFile(cur)} ELSE output_dir
    /\ sweep_log' = Append(sweep_log,
            [kind |-> IF code = 0 THEN "completed" ELSE "failed", pos |-> cur, code |-> code])
    /\ usage_file' = Append(usage_file, UsageRow)
    /\ faults' = IF \/ (code = 1 /\ interfaces_ok)
                  \/ (code = 0 /\ ~wrote /\ ~NoKey(ServiceAt(cur).name))
               THEN faults + 1 ELSE faults
    /\ cur' = AfterTuple
    /\ spc' = "loop"
    /\ UNCHANGED <<env_keys, ai_services, temperatures, repeats, selected_services,
                   selected_models, interfaces_ok, num_interfaces, invoked,
                   sweep_exit>>

\* lines 171-185: the subprocess has ended with exit code `code`
FinishTuple(code, wrote) ==
    /\ spc = "running"
    /\ code \in ExitCodes(ServiceAt(cur).name)
    /\ wrote \in SinkWritten(code)
    /\ output_dir' = IF wrote THEN output_dir \cup {OutputFile(cur)} ELSE output_dir
    /\ IF code = 0
       THEN /\ sweep_log' = Append(sweep_log, [kind |-> "completed", pos |-> cur, code |-> code])
            /\ usage_file' = Append(usage_file, UsageRow)
            /\ faults' = IF wrote \/ NoKey(ServiceAt(cur).name)
                       THEN faults ELSE faults + 1
       ELSE /\ sweep_log' = Append(sweep_log, [kind |-> "failed", pos |-> cur, code |-> code])
            /\ usage_file' = usage_file
            /\ faults' = IF code = 1 /\ interfaces_ok THEN faults + 1 ELSE faults
    /\ cur' = AfterTuple
    /\ spc' = "loop"
    /\ UNCHANGED <<env_keys, ai_services, temperatures, repeats, selected_services,
                   selected_models, interfaces_ok, num_interfaces, invoked,
                   sweep_exit>>

\* lines 187-188 and main 217: the outermost loop is exhausted
SweepDone ==
    /\ spc = "loop"
    /\ cur[1] > Len(ai_services)
    /\ sweep_log' = Append(sweep_log, [kind |-> "all_completed", pos |-> cur, code |-> 0])
    /\ sweep_exit' = 0
    /\ spc' = "done"
    /\ UNCHANGED <<env_keys, ai_services, temperatures, repeats, selected_services,
                   selected_models, interfaces_ok, num_interfaces, cur, invoked,
                   usage_file, output_dir, faults>>

---------------------------------------------------------------------------
(* Specification of one sweep *)

Svc(name, models) == [name |-> name, models |-> models]

Configs ==
    { <<Svc("anthropic", <<"opus", "gpt-4">>), Svc("openai", <<"gpt_4">>)>>,
      <<Svc("other", <<"opus">>), Svc("openai", <<"gpt-4">>)>>,
      <<Svc("qwen", <<>>), Svc("ollama", <<"gpt-4", "gpt_4">>)>> }

TemperatureLists == {[i \in 1..n |-> 7 * (i - 1)] : n \in 1..MaxTemps}

\* api_usage.csv before the sweep: absent, or left by an earlier sweep
EarlierRow ==
    [kind |-> "row", timestamp |-> "earlier", ai_service |-> "openai",
     model |-> "gpt-4", temperature |-> 0, run_number |-> 1,
     num_interfaces |-> 1, tokens_in |-> 700, tokens_out |-> 550]

\* the result file the run of EarlierRow has written, with the timestamp of
\* the earlier sweep
EarlierFile == <<"openai", "gpt_4", 0, 1, "earlier">>

\* no run of ui_assessment.py is modelled step by step
RunIdle ==
    /\ pc = "idle"
    /\ ai_service = "anthropic"
    /\ args = [model |-> "opus", temperature |-> 0, repeat |-> 1]
    /\ api_key = TRUE
    /\ ueeq_scales = <<"s1">>
    /\ idx = 1
    /\ attempt = 0
    /\ response = NoResponse
    /\ result = <<>>
    /\ results = <<>>
    /\ log = <<>>
    /\ backend = <<>>
    /\ calls = <<>>
    /\ timeline = <<>>
    /\ sink = <<>>
    /\ exit_code = -1
    /\ first_run = <<>>
    /\ DriverIdle

SweepInit ==
    /\ spc = "setup"
    /\ ai_services \in Configs
    /\ temperatures \in TemperatureLists
    /\ repeats \in 0..MaxRepeats
    /\ selected_services \in {{}, {"openai", "other"}}
    /\ selected_models \in {{}, {"opus"}}
    /\ interfaces_ok \in BOOLEAN
    /\ env_keys = KnownServices
    /\ interfaces \in {[i \in 1..MaxArtifacts |-> i]}
    /\ num_interfaces = 0
    /\ cur = <<1, 1, 1, 1>>
    /\ invoked = <<>>
    /\ usage_file \in {<<>>, <<Header, EarlierRow>>}
    /\ output_dir = IF usage_file = <<>> THEN {} ELSE {EarlierFile}
    /\ sweep_log = <<>>
    /\ faults = 0
    /\ sweep_exit = -1
    /\ RunIdle

SweepNext ==
    \/ \E config_ok \in BOOLEAN : Setup(config_ok) /\ UNCHANGED <<run_vars, rerun_vars, driver_vars>>
    \/ LoopStep /\ UNCHANGED <<run_vars, rerun_vars, driver_vars>>
    \/ StartTuple /\ UNCHANGED <<run_vars, rerun_vars, driver_vars>>
    \/ \E code \in {0, 1, 2}, wrote \in BOOLEAN :
          FinishTuple(code, wrote) /\ UNCHANGED <<run_vars, rerun_vars, driver_vars>>
    \/ SweepDone /\ UNCHANGED <<run_vars, rerun_vars, driver_vars>>

SweepSpec == SweepInit /\ [][SweepNext]_vars

\* a sweep over every provider of its configuration, in an environment that
\* lacks the key of one provider
KeySweepInit ==
    /\ spc = "setup"
    /\ ai_services \in Configs
    /\ temperatures \in TemperatureLists
    /\ repeats \in 0..MaxRepeats
    /\ selected_services = {}
    /\ selected_models = {}
    /\ interfaces_ok = TRUE
    /\ env_keys \in {KnownServices \ {s} : s \in {"anthropic", "openai", "qwen"}}
    /\ interfaces \in {[i \in 1..MaxArtifacts |-> i]}
    /\ num_interfaces = 0
    /\ cur = <<1, 1, 1, 1>>
    /\ invoked = <<>>
    /\ usage_file = <<>>
    /\ output_dir = {}
    /\ sweep_log = <<>>
    /\ faults = MaxFaults             \* no transient fault in these sweeps
    /\ sweep_exit = -1
    /\ RunIdle

KeySweepSpec == KeySweepInit /\ [][SweepNext]_vars

---------------------------------------------------------------------------
(* Either program *)

Init == RunInit \/ SweepInit
Next == RunNext \/ SweepNext
Spec == Init /\ [][Next]_vars

---------------------------------------------------------------------------
(* run_all.py: the pipeline driver *)

\* run_command, lines 28-38: the records of the driver's log about a stage
Stage(stage, event) == [stage |-> stage, event |-> event]

\* main, lines 54-86: the run directory is made, the configuration and the
\* artifact set are copied into it (an exception of the copy is not caught
\* and ends the driver with code 1) and the sweep command is started, with
\* the results directory of the new run directory as its output directory
StartPipeline(copied) ==
    /\ dpc = "idle"
    /\ spc = "setup"
    /\ IF copied
       THEN /\ pipeline' = Append(pipeline, Stage("sweep", "starting"))
            /\ dpc' = "sweep"
            /\ driver_exit' = driver_exit
       ELSE /\ pipeline' = pipeline
            /\ dpc' = "exit"
            /\ driver_exit' = 1
    /\ report' = report

\* main, lines 86-102, with run_command, lines 32-38: the sweep command has
\* exited.  subprocess.run(check=True) raises CalledProcessError for every
\* exit code but 0.
AfterSweep_ignoresFailure ==
    /\ dpc = "sweep"
    /\ spc = "done"
    /\ pipeline' = pipeline \o
            <<Stage("sweep", IF sweep_exit = 0 THEN "completed" ELSE "failed"),
              Stage("analysis", "starting")>>
    /\ dpc' = "analysis"
    /\ driver_exit' = driver_exit
    /\ report' = report
AfterSweep ==
    /\ dpc = "sweep"
    /\ spc = "done"
    /\ IF sweep_exit = 0
       THEN /\ pipeline' = pipeline \o <<Stage("sweep", "completed"),
                                         Stage("analysis", "starting")>>
            /\ dpc' = "analysis"
            /\ driver_exit' = driver_exit
       ELSE /\ pipeline' = Append(pipeline, Stage("sweep", "failed"))
            /\ dpc' = "exit"
            /\ driver_exit' = 1
    /\ report' = report

\* main, lines 102-109: the analysis command has exited with code
AfterAnalysis(code) ==
    /\ dpc = "analysis"
    /\ IF code = 0
       THEN /\ pipeline' = pipeline \o <<Stage("analysis", "completed"),
                                         Stage("report", "starting")>>
            /\ dpc' = "report"
            /\ driver_exit' = driver_exit
       ELSE /\ pipeline' = Append(pipeline, Stage("analysis", "failed"))
            /\ dpc' = "exit"
            /\ driver_exit' = 1
    /\ report' = report

\* main, lines 111-147: the report is written in the driver's own process;
\* an exception of open or write is not caught and ends the driver with
\* code 1
WriteReport(io_ok) ==
    /\ dpc = "report"
    /\ report' = io_ok
    /\ pipeline' = Append(pipeline,
                          Stage("report", IF io_ok THEN "completed" ELSE "failed"))
    /\ driver_exit' = IF io_ok THEN 0 ELSE 1
    /\ dpc' = "exit"

\* the driver and the sweep it starts; the results directory is new, so the
\* sweep finds no ledger and no result file
PipelineInit ==
    /\ SweepInit
    /\ usage_file = <<>>

PipelineNext ==
    \/ \E copied \in BOOLEAN :
          StartPipeline(copied) /\ UNCHANGED <<run_vars, sweep_vars, rerun_vars>>
    \/ dpc = "sweep" /\ SweepNext
    \/ AfterSweep /\ UNCHANGED <<run_vars, sweep_vars, rerun_vars>>
    \/ \E code \in {0, 1} :
          AfterAnalysis(code) /\ UNCHANGED <<run_vars, sweep_vars, rerun_vars>>
    \/ \E io_ok \in BOOLEAN :
          WriteReport(io_ok) /\ UNCHANGED <<run_vars, sweep_vars, rerun_vars>>

PipelineSpec == PipelineInit /\ [][PipelineNext]_vars

\* either program, run to its end.  The process is one thread, whose next
\* statement is executed as long as there is one, and every call of a
\* provider and every subprocess returns: weak fairness of the next step.
\* parse_ai_response returns for every reply: Respond is enabled in every
\* state at "respond" and is the only step that leaves it, so the fairness of
\* that statement is stated on the position of the thread.
RespondReturns == pc = "respond" /\ pc' = "append"
FairSpec ==
    /\ Init /\ [][Next]_vars
    /\ WF_vars(pc # "respond" /\ Next)
    /\ WF_pc(RespondReturns)

---------------------------------------------------------------------------
(* Properties of the sweep *)

\* the loop counters of every tuple of the configuration
ConfigTuples ==
    UNION {{<<i, j, k, r>> : j \in 1..Len(ai_services[i].models),
                             k \in 1..Len(temperatures), r \in 1..repeats} :
           i \in 1..Len(ai_services)}

\* the tuple's provider and model pass the optional filters
PassesFilters(c) ==
    /\ (selected_services = {} \/ ai_services[c[1]].name \in selected_services)
    /\ (selected_models = {} \/ ai_services[c[1]].models[c[2]] \in selected_models)

\* the nested order: provider, then model, then temperature, then repetition
LexLess(a, b) ==
    IF a[1] # b[1] THEN a[1] < b[1]
    ELSE IF a[2] # b[2] THEN a[2] < b[2]
    ELSE IF a[3] # b[3] THEN a[3] < b[3]
    ELSE a[4] < b[4]

InvocationsOf(c) == {n \in 1..Len(invoked) : invoked[n].pos = c}
Entries(kind) == SelectSeq(sweep_log, LAMBDA e : e.kind = kind)

RECURSIVE SumModels(_)
SumModels(n) == IF n = 0 THEN 0 ELSE Len(ai_services[n].models) + SumModels(n - 1)

\* C1: the runner is invoked exactly once for every tuple of the
\* configuration that passes the filters and for no other tuple: never more
\* often while the sweep runs, exactly that often once it has ended; every
\* invocation carries the values of its tuple; without filters the sweep
\* makes (sum of the model counts) x T x R invocations, failed runs included.
C1_OncePerTuple ==
    LET tuples == ConfigTuples
    IN
    /\ \A n \in 1..Len(invoked) :
          /\ invoked[n].pos \in tuples
          /\ PassesFilters(invoked[n].pos)
          /\ Cardinality(InvocationsOf(invoked[n].pos)) = 1
          /\ invoked[n].ai_service = ai_services[invoked[n].pos[1]].name
          /\ invoked[n].model = ai_services[invoked[n].pos[1]].models[invoked[n].pos[2]]
          /\ invoked[n].temperature = temperatures[invoked[n].pos[3]]
          /\ invoked[n].run_number = invoked[n].pos[4]
    /\ (spc = "done" /\ sweep_exit = 0) =>
          /\ \A c \in tuples : PassesFilters(c) => InvocationsOf(c) # {}
          /\ (selected_services = {} /\ selected_models = {}) =>
                Len(invoked) = SumModels(Len(ai_services)) * Len(temperatures) * repeats

C1_Witness ==
    /\ spc = "done"
    /\ selected_services = {}
    /\ selected_models = {}
    /\ Len(invoked) = 12
    /\ Len(Entries("failed")) = 1

\* C2: a failed run does not end the sweep: the failure is logged, the sweep
\* ends only when its loops are exhausted, with exit code 0, and by then
\* every tuple after the failed one has been invoked.
C2_FailureDoesNotHalt ==
    \A n \in 1..Len(sweep_log) :
        sweep_log[n].kind = "failed" =>
            /\ sweep_exit \in {-1, 0}
            /\ spc = "done" =>
                  /\ cur[1] > Len(ai_services)
                  /\ \A c \in ConfigTuples :
                        (PassesFilters(c) /\ LexLess(sweep_log[n].pos, c))
                            => InvocationsOf(c) # {}

C2_Witness ==
    /\ spc = "done"
    /\ \E n \in 1..Len(sweep_log) :
          /\ sweep_log[n].kind = "failed"
          /\ \E m \in (n + 1)..Len(sweep_log) :
                /\ sweep_log[m].kind = "completed"
                /\ LexLess(sweep_log[n].pos, sweep_log[m].pos)

\* C3: the n-th invocation of a sweep is the n-th tuple, in the nested order
\* (provider, model, temperature, repetition), of the tuples that pass the
\* filters; the sequence of invocations is a function of the configuration.
C3_NestedOrder ==
    LET passing == {c \in ConfigTuples : PassesFilters(c)}
    IN \A n \in 1..Len(invoked) :
          Cardinality({c \in passing : LexLess(c, invoked[n].pos)}) = n - 1

C3_Witness ==
    /\ spc = "done"
    /\ Len(invoked) = 12
    /\ invoked[1].pos = <<1, 1, 1, 1>>
    /\ invoked[2].pos = <<1, 1, 1, 2>>
    /\ invoked[3].pos = <<1, 1, 2, 1>>
    /\ invoked[5].pos = <<1, 2, 1, 1>>
    /\ invoked[9].pos = <<2, 1, 1, 1>>

\* the rows this sweep has added to the ledger
NewRows == SelectSeq(usage_file, LAMBDA r : r.kind = "row" /\ r.timestamp = "now")

RowIsFor(r, c) ==
    /\ r.ai_service = ai_services[c[1]].name
    /\ r.model = ai_services[c[1]].models[c[2]]
    /\ r.temperature = temperatures[c[3]]
    /\ r.run_number = c[4]

---------------------------------------------------------------------------
(* Properties of the response parser (process_interface, lines 346-376) *)

\* the scale names of the rubric
RubricNames == {ueeq_scales[n] : n \in 1..Len(ueeq_scales)}

FirstOpen(t, i) == HasOpen(t[i]) /\ \A j \in 1..(i - 1) : ~HasOpen(t[j])
LastClose(t, j) == HasClose(t[j]) /\ \A k \in (j + 1)..Len(t) : ~HasClose(t[k])

\* the reply has no '{', or no '}' after its first '{', or the text from its
\* first '{' to its last '}' does not decode
Unparsable(t) ==
    \/ \A i \in 1..Len(t) : ~HasOpen(t[i])
    \/ \E i \in 1..Len(t) :
          FirstOpen(t, i) /\ \A j \in (i + 1)..Len(t) : ~HasClose(t[j])
    \/ \E i, j \in 1..Len(t) :
          /\ FirstOpen(t, i)
          /\ LastClose(t, j)
          /\ i < j
          /\ ~json_loads(Slice(t, i, j)).ok

LastLog == log[Len(log)]

\* C4 as claimed: no result in the result list or in a sink lacks a scale
\* name of the rubric in its score mapping.
C4_MissingScaleRejected ==
    /\ \A n \in 1..Len(results) : RubricNames \subseteq results[n].assessment
    /\ \A t \in 1..Len(sink) : \A n \in 1..Len(sink[t].rows) :
          \A k \in RubricNames :
              /\ ScoreColumn(k) \in sink[t].columns
              /\ sink[t].rows[n][ScoreColumn(k)] # <<>>

\* C7: for a reply that cannot be parsed process_interface returns None and
\* logs the failure; it returns to the loop of run_assessment (no exception,
\* no exit).
C7_ParseFailureIsValue ==
    (pc = "append" /\ Unparsable(response.text)) =>
        /\ result = <<>>
        /\ exit_code = -1
        /\ \E n \in 1..Len(log) :
              log[n].kind \in {"no_response", "no_json", "json_error"}

C7_Witness ==
    /\ pc = "append"
    /\ \E i, j \in 1..Len(response.text) :
          /\ FirstOpen(response.text, i)
          /\ LastClose(response.text, j)
          /\ i < j
          /\ ~json_loads(Slice(response.text, i, j)).ok
    /\ result = <<>>
    /\ LastLog.kind = "json_error"

Names(S) == {S[n] : n \in 1..Len(S)}

\* the text from position i to position j is a well-formed object whose
\* score mapping has every scale name of the scale list S
BlockAt(t, i, j, S) ==
    /\ i <= j
    /\ HasOpen(t[i])
    /\ json_loads(Slice(t, i, j)).ok
    /\ Names(S) \subseteq Assessment(json_loads(Slice(t, i, j)).obj)

---------------------------------------------------------------------------
(* Properties of one run *)

Started == \E n \in 1..Len(log) : log[n].kind = "starting"

\* how often process_interface was entered for the artifact at position i
Begun(i) ==
    Cardinality({n \in 1..Len(log) :
        log[n].iter = i /\ log[n].kind \in {"calling", "unknown_service"}})

LogCount(i, kinds) ==
    Cardinality({n \in 1..Len(log) : log[n].iter = i /\ log[n].kind \in kinds})

HasResult(i) ==
    \E n \in 1..Len(results) : results[n].metadata.interface_id = interfaces[i]

\* the artifact at position i is past process_interface
Processed(i) == i < idx \/ (i = idx /\ pc = "append")

\* for the artifact at position i the adapter raised before any call, its
\* last call ended without a reply, or the reply cannot be parsed
FailedArtifact(i) ==
    /\ Processed(i)
    /\ LET cs == CallsFor(i)
       IN \/ cs = <<>>
          \/ cs[Len(cs)].kind # "reply"
          \/ Unparsable(cs[Len(cs)].text)

\* C5: process_interface is entered exactly once for every artifact; a
\* failure of the adapter or of the parser on an artifact adds no result,
\* is logged, and does not end the run: the loop reaches the last artifact.
C5_EveryArtifactOnce ==
    /\ \A i \in 1..Len(interfaces) :
          /\ Begun(i) = (IF i < idx \/ (i = idx /\ pc \in {"call", "respond", "append"})
                         THEN 1 ELSE 0)
          /\ FailedArtifact(i) =>
                /\ ~HasResult(i)
                /\ LogCount(i, {"no_response", "no_json", "json_error",
                                "processing_error", "unknown_service"}) >= 1
    /\ pc \in {"loop", "call", "respond", "append"} => exit_code = -1
    /\ (Started /\ pc \in {"save", "exit"}) => idx = Len(interfaces) + 1

C5_Witness ==
    /\ pc = "exit"
    /\ exit_code = 0
    /\ Len(interfaces) = 2
    /\ FailedArtifact(1)
    /\ CallsFor(1) # <<>>
    /\ HasResult(2)
    /\ Len(results) = 1

\* the backend fails with a rate-limit error on its first k calls for the
\* current artifact and answers call k + 1 with the reply r
ScriptIs(k, r) ==
    /\ Len(backend) = k + 1
    /\ \A n \in 1..k : backend[n] = RateLimit
    /\ backend[k + 1] = Reply(r)

\* C9 as claimed: with any adapter, a backend that is rate-limited on its
\* first k calls, k below the retry cap, and then gives the requested object
\* yields a result for the artifact.
C9_AnyAdapterRetries ==
    (pc = "append" /\ CallsFor(idx) # <<>>) =>
        \A k \in 0..(max_retries - 1) :
            ScriptIs(k, ReplyFull) => result # <<>>

\* C9, amended: the OpenAI adapter returns the reply of call k + 1 after k
\* rate-limit errors, k below its cap of 3, and the artifact gets a result
\* when that reply is the requested object; the other adapters make one call
\* only, so for them this holds for k = 0 and a rate-limit error skips the
\* artifact.
C9_OpenAIRetries ==
    (pc = "append" /\ CallsFor(idx) # <<>>) =>
        \A k \in 0..(max_retries - 1) : \A r \in RunReplies :
            ScriptIs(k, r) =>
                IF ai_service = "openai" \/ k = 0
                THEN /\ response = Text(r)
                     /\ Len(CallsFor(idx)) = k + 1
                     /\ r = ReplyFull =>
                           /\ result # <<>>
                           /\ result[1].assessment = {"s1", "s2"}
                           /\ result[1].metadata.interface_id = interfaces[idx]
                ELSE /\ Len(CallsFor(idx)) = 1
                     /\ result = <<>>

C9_Witness ==
    /\ pc = "append"
    /\ ai_service = "openai"
    /\ ScriptIs(2, ReplyFull)
    /\ Len(CallsFor(idx)) = 3
    /\ result # <<>>

\* every call the adapter could make for the artifact at position i ended
\* with a rate-limit error
RateLimitedOut(i) ==
    LET cs == CallsFor(i)
    IN /\ Len(cs) = (IF ai_service = "openai" THEN max_retries ELSE 1)
       /\ \A n \in 1..Len(cs) : cs[n].kind = "rate limit"

GotFull(i) ==
    LET cs == CallsFor(i)
    IN cs # <<>> /\ cs[Len(cs)] = [iter |-> i, kind |-> "reply", text |-> ReplyFull]

\* C10: an artifact whose calls were all rate-limited, up to the cap, gets
\* exactly one skipped-artifact record and no result, and the run passes to
\* the next artifact; when it is the only such artifact and the others get
\* the requested object, the run ends with N - 1 results.
C10_RetryCapSkipsOne ==
    /\ \A i \in 1..Len(interfaces) :
          (RateLimitedOut(i) /\ Processed(i)) =>
              /\ LogCount(i, {"no_response"}) = 1
              /\ LogCount(i, {"no_json", "json_error", "processing_error",
                              "unknown_service"}) = 0
              /\ ~HasResult(i)
              /\ (pc \in {"save", "exit"} /\ i < Len(interfaces)) => Begun(i + 1) = 1
    /\ ( /\ pc \in {"save", "exit"}
         /\ Started
         /\ \E i \in 1..Len(interfaces) :
               /\ RateLimitedOut(i)
               /\ \A j \in 1..Len(interfaces) : j # i => GotFull(j) )
       => Len(results) = Len(interfaces) - 1

C10_Witness ==
    /\ pc = "exit"
    /\ exit_code = 0
    /\ ai_service = "openai"
    /\ Len(interfaces) = 2
    /\ RateLimitedOut(1)
    /\ GotFull(2)
    /\ Len(results) = 1
    /\ results[1].metadata.interface_id = interfaces[2]

---------------------------------------------------------------------------
(* The missing credential (adapters, lines 134-137; process_interface 378) *)

\* the adapter needs a key and the environment has none
KeyAbsent == ai_service \in KnownServices \ {"ollama"} /\ ~api_key

\* how often an adapter raised the ValueError for the missing key
KeyErrors == Cardinality({n \in 1..Len(log) : log[n].kind = "key_missing"})

\* C11 as claimed: with the key of the selected provider missing the adapter
\* raises before any outbound call, no adapter is invoked again in the run
\* (the error is raised once), and the run ends with a non-zero exit code.
C11_MissingKeyFatal ==
    KeyAbsent =>
        /\ calls = <<>>
        /\ KeyErrors <= 1
        /\ (pc = "exit" /\ KeyErrors >= 1) => exit_code \notin {-1, 0}

---------------------------------------------------------------------------
(* Properties of the result files and of the exit code of a sweep *)

\* the result files this sweep has written
NewFiles == {f \in output_dir : f[5] = timestamp}

\* C12 as claimed: two distinct tuples of one sweep never get the same
\* result file path, and a sweep whose runs have all written their results
\* leaves as many result files as it has run tuples.
C12_SinkExclusive ==
    /\ \A m, n \in 1..Len(invoked) :
          m # n => invoked[m].output_file # invoked[n].output_file
    /\ (spc = "done" /\ sweep_exit = 0 /\ faults = 0 /\ Entries("failed") = <<>>)
          => Cardinality(NewFiles) = Len(invoked)

\* C13 as claimed: the sweep command ends with exit code 0 when its loops
\* ran to the end, failed tuples included, and with a non-zero exit code
\* exactly on a setup-level fatal error: a configuration file or an
\* artifact-set file that is missing or cannot be read.
C13_ExitCode ==
    spc = "done" =>
        /\ (Entries("error") = <<>> /\ interfaces_ok) => sweep_exit = 0
        /\ Entries("error") # <<>> => sweep_exit \notin {-1, 0}
        /\ ~interfaces_ok => sweep_exit \notin {-1, 0}

\* the result files an earlier sweep has left in the output directory
EarlierFiles == {f \in output_dir : f[5] # timestamp}

\* the file f is the result file of the same tuple as the file g: the names
\* agree in everything but the timestamp of the sweep
SameTuple(f, g) == \A k \in 1..4 : f[k] = g[k]

\* C15 as claimed: a sweep started again with the same configuration and
\* output directory does not invoke the runner for a tuple whose result file
\* an earlier sweep has already written.
C15_ResumeSkipsExisting ==
    \A n \in 1..Len(invoked) :
        \A f \in EarlierFiles : ~SameTuple(f, invoked[n].output_file)

---------------------------------------------------------------------------
(* Properties of the usage ledger (api_usage.csv) *)

\* a step keeps every line of the ledger, unchanged and at its position
LedgerKept ==
    \A n \in 1..Len(usage_file) :
        Len(usage_file') >= n /\ usage_file'[n] = usage_file[n]

\* the ledger, when it exists, has the header as its first line and nowhere
\* else
HeaderOnce ==
    usage_file # <<>> =>
        /\ usage_file[1].kind = "header"
        /\ \A n \in 2..Len(usage_file) : usage_file[n].kind = "row"

\* C16: the ledger is append-only: every step of a sweep, also of a sweep
\* into a directory that holds the ledger of an earlier sweep, keeps every
\* line written before, and the header is the first line and occurs once.
C16_LedgerAppendOnly == HeaderOnce /\ [][LedgerKept /\ HeaderOnce']_vars

C16_Witness ==
    /\ spc = "done"
    /\ Len(usage_file) >= 4
    /\ usage_file[1] = Header
    /\ usage_file[2] = EarlierRow
    /\ usage_file[3].timestamp = "now"

\* the rows of the ledger
Rows == SelectSeq(usage_file, LAMBDA r : r.kind = "row")

\* C20: in every row of the ledger tokens_in and tokens_out are the
\* per-artifact constants of the row's provider (anthropic 800 and 600;
\* openai, qwen and ollama 700 and 550; any other provider 750 and 550)
\* times the row's num_interfaces, and in the rows of this sweep
\* num_interfaces is the number of artifacts of the artifact set.
C20_TokenEstimate ==
    /\ \A n \in 1..Len(Rows) :
          LET r == Rows[n]
          IN /\ r.ai_service = "anthropic" =>
                   /\ r.tokens_in = 800 * r.num_interfaces
                   /\ r.tokens_out = 600 * r.num_interfaces
             /\ r.ai_service \in {"openai", "qwen", "ollama"} =>
                   /\ r.tokens_in = 700 * r.num_interfaces
                   /\ r.tokens_out = 550 * r.num_interfaces
             /\ r.ai_service \notin KnownServices =>
                   /\ r.tokens_in = 750 * r.num_interfaces
                   /\ r.tokens_out = 550 * r.num_interfaces
    /\ \A n \in 1..Len(NewRows) : NewRows[n].num_interfaces = Len(interfaces)

C20_Witness ==
    /\ spc = "done"
    /\ \E m, n \in 1..Len(NewRows) :
          /\ NewRows[m].ai_service = "anthropic"
          /\ NewRows[m].num_interfaces = Len(interfaces)
          /\ NewRows[m].tokens_in = 800 * Len(interfaces)
          /\ NewRows[n].ai_service = "openai"
          /\ NewRows[n].tokens_out = 550 * Len(interfaces)

---------------------------------------------------------------------------
(* Properties of the result file (save_results_to_csv, lines 407-439) *)

Logged(kind) == \E n \in 1..Len(log) : log[n].kind = kind

\* the scale names that occur in the score mapping of some result
ResultScales == UNION {results[n].assessment : n \in 1..Len(results)}

\* C17: a batch of results, also one whose results have different scales,
\* is written without an error of its own (only a failure to write the file
\* makes the run fail); the columns of the table are the metadata columns,
\* the score columns of all results and explanation; every result is one
\* row; a cell of a scale that a result does not have is empty, the other
\* score cells hold the score of the result.
C17_UnionOfColumns ==
    (pc = "exit" /\ results # <<>>) =>
        /\ exit_code = 0 <=> Logged("saved")
        /\ exit_code # 0 <=> Logged("save_error")
        /\ Logged("saved") =>
              /\ Len(sink) = 1
              /\ sink[1].columns = MetaColumns \cup {"explanation"}
                    \cup {ScoreColumn(k) : k \in ResultScales}
              /\ Len(sink[1].rows) = Len(results)
              /\ \A n \in 1..Len(results) :
                    /\ DOMAIN sink[1].rows[n] = sink[1].columns
                    /\ sink[1].rows[n]["metadata_interface_id"] =
                          results[n].metadata.interface_id
                    /\ \A k \in ResultScales :
                          IF k \in results[n].assessment
                          THEN /\ sink[1].rows[n][ScoreColumn(k)] # <<>>
                               /\ sink[1].rows[n][ScoreColumn(k)][1] =
                                     results[n].scores[k]
                          ELSE sink[1].rows[n][ScoreColumn(k)] = <<>>

C17_Witness ==
    /\ pc = "exit"
    /\ exit_code = 0
    /\ Len(results) = 2
    /\ results[1].assessment = {"s1"}
    /\ results[2].assessment = {"s1", "s2"}
    /\ Len(sink) = 1
    /\ sink[1].rows[1]["score_s2"] = <<>>
    /\ sink[1].rows[2]["score_s2"] = <<5, 0>>

\* the last call made for the artifact at position i was answered with r
GotReply(i, r) ==
    LET cs == CallsFor(i)
    IN cs # <<>> /\ cs[Len(cs)].kind = "reply" /\ cs[Len(cs)].text = r

\* C19 as claimed: every cell of a result file that holds the score of a
\* scale of the rubric holds an integer from 1 to 7 or -1, and an artifact
\* whose reply has another value for a scale of the rubric has no row in
\* the result file.
C19_ScoresInRange ==
    \A t \in 1..Len(sink) :
        /\ \A n \in 1..Len(sink[t].rows) :
              \A k \in RubricNames :
                  ScoreColumn(k) \in sink[t].columns =>
                      \/ sink[t].rows[n][ScoreColumn(k)] = <<>>
                      \/ sink[t].rows[n][ScoreColumn(k)][1] \in ValidScores
        /\ \A i \in 1..Len(interfaces) :
              (GotReply(i, ReplyOutOfRange) /\ "s2" \in RubricNames) =>
                  \A n \in 1..Len(sink[t].rows) :
                      sink[t].rows[n]["metadata_interface_id"] # interfaces[i]

---------------------------------------------------------------------------
(* What an adapter returns for a failed call *)

\* the kind of the last outcome the backend gave for the current artifact
LastCallKind == CallsFor(idx)[Len(CallsFor(idx))].kind

\* C18 as claimed: the caller of an adapter can tell a rate-limit failure
\* from any other failure by what the adapter returns: the adapters return
\* None (NoResponse) for a failure that is not a rate-limit error, so what
\* they return after a rate-limit error is something else.
C18_TypedFailure ==
    (pc = "respond" /\ CallsFor(idx) # <<>> /\ LastCallKind = "rate limit")
        => response # NoResponse

---------------------------------------------------------------------------
(* The same command run a second time: the orchestrator, started again     *)
(* with the same configuration and artifact set, runs ui_assessment.py for *)
(* the same tuple again (run_multiple_assessments.py, lines 140-171).      *)

\* for every artifact, how each call made for it ended and whether the
\* artifact got a result
RunPattern ==
    [i \in 1..Len(interfaces) |->
        [kinds |-> [n \in 1..Len(CallsFor(i)) |-> CallsFor(i)[n].kind],
         ok |-> HasResult(i)]]

\* what a run that has ended leaves: its exit code, and the structure of
\* its result file
RunOutcome ==
    [pattern |-> RunPattern,
     exit_code |-> exit_code,
     written |-> sink # <<>>,
     rows |-> IF sink = <<>> THEN 0 ELSE Len(sink[1].rows),
     columns |-> IF sink = <<>> THEN {} ELSE sink[1].columns]

\* the run has ended and the command is run again, with a result file of
\* its own (the file name has the timestamp of the new sweep)
Rerun ==
    /\ pc = "exit"
    /\ first_run = <<>>
    /\ first_run' = <<RunOutcome>>
    /\ pc' = "start"
    /\ idx' = 1
    /\ attempt' = 0
    /\ response' = NoResponse
    /\ result' = <<>>
    /\ results' = <<>>
    /\ log' = <<>>
    /\ backend' = <<>>
    /\ calls' = <<>>
    /\ timeline' = <<>>
    /\ sink' = <<>>
    /\ exit_code' = -1
    /\ UNCHANGED <<ai_service, args, api_key, ueeq_scales, interfaces>>

\* a run for a provider whose key is set, with the rubric of two scales
RerunInit ==
    /\ RunInit
    /\ ai_service = "anthropic"
    /\ api_key
    /\ ueeq_scales = <<"s1", "s2">>

RerunNext ==
    \/ RunNext
    \/ Rerun /\ UNCHANGED <<sweep_vars, driver_vars>>

RerunSpec == RerunInit /\ [][RerunNext]_vars

\* C14 as claimed: a second run of the same command, in which the provider
\* succeeds and fails on the same requests and the same artifacts get a
\* result, and which ends with the same exit code, leaves a result file
\* exactly when the first run did, with as many rows and the same columns.
C14_SameStructure ==
    ( /\ first_run # <<>>
      /\ pc = "exit"
      /\ RunPattern = first_run[1].pattern
      /\ exit_code = first_run[1].exit_code )
    => /\ RunOutcome.written = first_run[1].written
       /\ RunOutcome.rows = first_run[1].rows
       /\ RunOutcome.columns = first_run[1].columns

---------------------------------------------------------------------------
(* The order of the artifacts in a run (run_assessment, lines 392-398) *)

\* the position in the artifact set of the artifact of a result
PositionOf(r) ==
    CHOOSE i \in 1..Len(interfaces) : interfaces[i] = r.metadata.interface_id

\* the results whose artifact is the one at position i
ResultsOf(i) ==
    {n \in 1..Len(results) : results[n].metadata.interface_id = interfaces[i]}

\* C26: the artifacts are processed in the order of the artifact set; the
\* result list is a subsequence of the artifact set in that order, with
\* exactly one result for an artifact whose reply was decoded, none for a
\* skipped artifact and never two for one artifact; the rows of the result
\* file are the results, in the same order.
C26_ResultsInOrder ==
    /\ \A n \in 1..(Len(calls) - 1) : calls[n].iter <= calls[n + 1].iter
    /\ \A n \in 1..(Len(log) - 1) : log[n].iter <= log[n + 1].iter
    /\ \A n \in 1..Len(results) :
          /\ \E i \in 1..Len(interfaces) : interfaces[i] = results[n].metadata.interface_id
          /\ \A m \in 1..(n - 1) : PositionOf(results[m]) < PositionOf(results[n])
    /\ \A i \in 1..Len(interfaces) :
          /\ Cardinality(ResultsOf(i)) <= 1
          /\ ResultsOf(i) # {} => Processed(i) /\ ~FailedArtifact(i)
          /\ (i < idx /\ ~FailedArtifact(i)) => Cardinality(ResultsOf(i)) = 1
    /\ \A t \in 1..Len(sink) :
          /\ Len(sink[t].rows) = Len(results)
          /\ \A n \in 1..Len(results) :
                sink[t].rows[n]["metadata_interface_id"] =
                    results[n].metadata.interface_id

C26_Witness ==
    /\ pc = "exit"
    /\ Len(interfaces) = 2
    /\ Len(results) = 2
    /\ results[1].metadata.interface_id = interfaces[1]
    /\ results[2].metadata.interface_id = interfaces[2]
    /\ Len(sink) = 1
    /\ sink[1].rows[2]["metadata_interface_id"] = interfaces[2]

---------------------------------------------------------------------------
(* The result file is written once, at the end of the run
   (main, lines 463-466; save_results_to_csv, lines 407-439) *)

\* C30: the result file of a run is written at most once, and only after the
\* last artifact of the pass has been processed: while artifacts are being
\* processed there is no result file, and a run that ends with an error
\* leaves none, whatever results it had gathered.
C30_SinkOnlyAtEnd ==
    /\ [](sink # <<>> =>
            /\ pc = "exit"
            /\ idx = Len(interfaces) + 1
            /\ exit_code = 0
            /\ Logged("completed"))
    /\ [][sink' # sink =>
            /\ sink = <<>>
            /\ pc = "save"
            /\ pc' = "exit"
            /\ sink' = <<Table(results)>>]_vars

\* a run of two artifacts that wrote its file, with both results
C30_Witness ==
    /\ pc = "exit"
    /\ Len(interfaces) = 2
    /\ Len(results) = 2
    /\ sink = <<Table(results)>>
    /\ exit_code = 0

---------------------------------------------------------------------------
(* The outbound calls of one invocation of an adapter
   (call_openai_gpt4v, lines 208-236; the other adapters, e.g. 268-278) *)

\* the events of the timeline for the artifact at position i
EventsFor(i) == SelectSeq(timeline, LAMBDA e : e.iter = i)

\* process_interface is in, or past, the adapter for the artifact at i
Invoked(i) == i < idx \/ (i = idx /\ pc \in {"call", "respond", "append"})

---------------------------------------------------------------------------
(* The delay between two artifacts (run_assessment, lines 392-398) *)

\* the delays of the fixed length in the events of the artifact at position i
Delays(i) ==
    {n \in 1..Len(EventsFor(i)) :
        EventsFor(i)[n] = [kind |-> "sleep", iter |-> i, secs |-> 1]}

\* C25: between the calls of process_interface for two consecutive artifacts
\* the run sleeps once for 1 second, also when the earlier artifact was
\* skipped: the events of an artifact follow all events of the artifacts
\* before it, every artifact the loop has left ends with the 1-second sleep,
\* and no call is made for an artifact before the sleep of the one before it.
C25_DelayBetweenArtifacts ==
    /\ \A n \in 1..(Len(timeline) - 1) :
          timeline[n].iter <= timeline[n + 1].iter
    /\ \A i \in 1..Len(interfaces) :
          IF i < idx
          THEN /\ Delays(i) = {Len(EventsFor(i))}
               /\ EventsFor(i) # <<>>
          ELSE Delays(i) = {}
    /\ \A i \in 2..Len(interfaces) :
          (Begun(i) > 0 \/ CallsFor(i) # <<>>) => Delays(i - 1) # {}

\* the first artifact was skipped after a failed call, the run slept for a
\* second, and the call for the second artifact has been made
C25_Witness ==
    /\ Len(interfaces) = 2
    /\ idx = 2
    /\ pc = "respond"
    /\ FailedArtifact(1)
    /\ Len(timeline) = 3
    /\ timeline[1] = [kind |-> "call", iter |-> 1, secs |-> 0]
    /\ timeline[2] = [kind |-> "sleep", iter |-> 1, secs |-> 1]
    /\ timeline[3] = [kind |-> "call", iter |-> 2, secs |-> 0]

---------------------------------------------------------------------------
(* The metadata of a result (process_interface, lines 362-370;
   save_results_to_csv, lines 419-421) *)

\* C27: every result of process_interface, and every row written from it,
\* carries metadata naming the provider, the model, the temperature, the
\* artifact identifier, the pattern label and the repetition index of the
\* request that produced it, each equal to the value of the request.
C27_MetadataOfRequest ==
    /\ \A n \in 1..Len(results) :
          LET md == results[n].metadata
          IN /\ md.ai_service = ai_service
             /\ md.model = args.model
             /\ md.temperature = args.temperature
             /\ \E i \in 1..Len(interfaces) :
                   /\ md.interface_id = interfaces[i]
                   /\ md.pattern_type = pattern_type(interfaces[i])
             /\ "repeat" \in DOMAIN md
             /\ md.repeat = args.repeat
    /\ \A t \in 1..Len(sink) : \A n \in 1..Len(sink[t].rows) :
          LET row == sink[t].rows[n]
          IN /\ row["metadata_ai_service"] = ai_service
             /\ row["metadata_model"] = args.model
             /\ row["metadata_temperature"] = args.temperature
             /\ row["metadata_interface_id"] = results[n].metadata.interface_id
             /\ row["metadata_pattern_type"] = results[n].metadata.pattern_type
             /\ "metadata_repeat" \in sink[t].columns
             /\ row["metadata_repeat"] = args.repeat

---------------------------------------------------------------------------
(* The states of a tuple of the sweep (run_multiple_assessments.py, lines
   118-185): Pending until its command is started (line 153), Running until
   the subprocess has ended, then Completed (line 175) or Failed (line 181) *)

\* the entries of the log about the tuple at the loop counters c
TupleEntries(c) ==
    {n \in 1..Len(sweep_log) :
        sweep_log[n].pos = c /\ sweep_log[n].kind \in {"running", "completed", "failed"}}

\* the state of the tuple at the loop counters c: what the last entry of the
\* log about it says
TupleState(c) ==
    LET es == TupleEntries(c)
    IN IF es = {} THEN "Pending"
       ELSE LET last == CHOOSE n \in es : \A m \in es : m <= n
            IN IF sweep_log[last].kind = "running" THEN "Running"
               ELSE IF sweep_log[last].kind = "completed" THEN "Completed"
               ELSE "Failed"

\* the last entry of the log about every tuple, found in one pass from the
\* end of the log: the set of the tuples with their states
RECURSIVE LastEntries(_, _)
LastEntries(n, seen) ==
    IF n = 0 THEN {}
    ELSE LET e == sweep_log[n]
         IN IF e.pos \in seen \/ e.kind \notin {"running", "completed", "failed"}
            THEN LastEntries(n - 1, seen)
            ELSE {[pos |-> e.pos, kind |-> e.kind]}
                     \cup LastEntries(n - 1, seen \cup {e.pos})

\* the tuples c whose last entry is of the kind: TupleState(c) is its state
InState(kind) ==
    {e.pos : e \in {x \in LastEntries(Len(sweep_log), {}) : x.kind = kind}}

\* C22: a tuple of the sweep moves only from Pending to Running and from
\* Running to Completed or Failed, and never leaves Completed or Failed; at
\* most one tuple is Running, and a tuple is Running only when every tuple
\* before it in the order of the enumeration (that passes the filters) is
\* Completed or Failed.  The log grows by one entry at a time, so a step
\* changes the state of the tuple of the new entry only.
C22_TupleStates ==
    /\ [](LET running == InState("running")
              finished == InState("completed") \cup InState("failed")
          IN /\ Cardinality(running) <= 1
             /\ running = (IF spc = "running" THEN {cur} ELSE {})
             /\ \A c \in running : \A d \in ConfigTuples :
                   (PassesFilters(d) /\ LexLess(d, c)) => d \in finished)
    /\ [][\/ sweep_log' = sweep_log
          \/ /\ Len(sweep_log') = Len(sweep_log) + 1
             /\ SubSeq(sweep_log', 1, Len(sweep_log)) = sweep_log
             /\ \A c \in ConfigTuples :
                   c = sweep_log'[Len(sweep_log')].pos =>
                       LET before == TupleState(c)
                           after == TupleState(c)'
                       IN \/ after = before
                          \/ before = "Pending" /\ after = "Running"
                          \/ /\ before = "Running"
                             /\ after \in {"Completed", "Failed"}]_vars

\* one tuple has failed, one has completed, and a third one is running
C22_Witness ==
    /\ spc = "running"
    /\ TupleState(cur) = "Running"
    /\ \E c, d \in ConfigTuples :
          /\ TupleState(c) = "Failed"
          /\ TupleState(d) = "Completed"
          /\ LexLess(c, d)
          /\ LexLess(d, cur)

---------------------------------------------------------------------------
(* A missing key in a sweep (ui_assessment.py, lines 134-137 and 175-180;
   run_multiple_assessments.py, lines 168-185) *)

\* the tuples of the providers that lack their key
KeylessTuples == {c \in ConfigTuples : NoKey(ai_services[c[1]].name)}

\* the sweep has ended after its loops, not in its setup
LoopsEnded == spc = "done" /\ Entries("error") = <<>>

\* C21: a missing key is fatal for its provider only: the runs of a provider
\* whose key is missing leave no result file, but they do not end the sweep,
\* which ends with exit code 0 after it has invoked every tuple of every
\* provider, those of the providers that have their key included.
C21_KeyMissingNotFatal ==
    /\ \A c \in KeylessTuples :
          \A n \in InvocationsOf(c) : invoked[n].output_file \notin output_dir
    /\ \A n \in 1..Len(sweep_log) :
          (sweep_log[n].pos \in KeylessTuples /\ n < Len(sweep_log)) =>
              sweep_log[n + 1].kind # "error"
    /\ LoopsEnded =>
          /\ sweep_exit = 0
          /\ sweep_log[Len(sweep_log)].kind = "all_completed"
          /\ \A c \in ConfigTuples :
                /\ Cardinality(InvocationsOf(c)) = 1
                /\ TupleState(c) \in {"Completed", "Failed"}

\* the sweep has ended; the first provider lacked its key and its runs left
\* no file, and the runs of the second provider, after them, left theirs
C21_Witness ==
    /\ LoopsEnded
    /\ Len(ai_services) = 2
    /\ NoKey(ai_services[1].name)
    /\ ~NoKey(ai_services[2].name)
    /\ \E c, d \in ConfigTuples :
          /\ c[1] = 1
          /\ d[1] = 2
          /\ TupleState(c) = "Completed"
          /\ TupleState(d) = "Completed"
          /\ \E n \in InvocationsOf(d) : invoked[n].output_file \in output_dir
    /\ \A n \in 1..Len(invoked) :
          invoked[n].pos[1] = 1 => invoked[n].output_file \notin output_dir

---------------------------------------------------------------------------
(* A run without results (save_results_to_csv, lines 409-411; main, lines
   446-448 and 456-470) and its tuple (run_multiple_assessments.py, 168-181) *)

\* the pass over the artifact set has ended without any result
PassWithoutResult == pc = "exit" /\ Logged("completed") /\ results = <<>>

\* the provider name is none of the choices of --ai_service
UnknownProvider(name) == name \notin KnownServices

---------------------------------------------------------------------------
(* Termination (call_openai_gpt4v, lines 208-236; run_assessment, lines
   391-402; run_multiple_assessments, lines 118-188) *)

\* every tuple of the configuration that passes the filters has been run
AllTuplesEnded ==
    \A c \in ConfigTuples :
        PassesFilters(c) => TupleState(c) \in {"Completed", "Failed"}

\* C23: when every call of a provider returns, a call of an adapter ends
\* within its retry budget, a pass of run_assessment reaches the end of the
\* artifact set and the run ends, the run of every tuple of a sweep ends, and
\* a sweep that has read its configuration ends after every tuple is
\* Completed or Failed, with the report that all assessments completed.
C23_Terminates ==
    /\ <>(pc = "exit" \/ spc = "done")
    /\ [](attempt <= max_retries /\ Len(CallsFor(idx)) <= max_retries)
    /\ []((pc = "exit" /\ Logged("starting")) => idx = Len(interfaces) + 1)
    /\ []((spc = "done" /\ Entries("error") = <<>>) =>
            /\ AllTuplesEnded
            /\ sweep_log[Len(sweep_log)].kind = "all_completed")

\* a sweep has ended after a failed and a completed tuple
C23_Witness ==
    /\ spc = "done"
    /\ AllTuplesEnded
    /\ sweep_log[Len(sweep_log)].kind = "all_completed"
    /\ Len(Entries("failed")) >= 1
    /\ Len(Entries("completed")) >= 1

---------------------------------------------------------------------------
(* The stages of the pipeline driver (run_all.py, main, lines 70-147) *)

\* the stages the driver started, in the order it started them
StagesStarted == SelectSeq(pipeline, LAMBDA e : e.event = "starting")
StageOrder == <<"sweep", "analysis", "report">>

\* C28: the driver starts its stages in the order sweep, analysis, report;
\* the analysis is started only right after the sweep command has exited
\* with code 0, the report only right after the analysis has exited
\* successfully and is written only then; a stage that failed is the last
\* record of the driver, which exits with code 1; and the sweep runs only
\* while the driver waits for it.
C28_StagesInOrder ==
    /\ Len(StagesStarted) <= Len(StageOrder)
    /\ \A n \in 1..Len(StagesStarted) : StagesStarted[n].stage = StageOrder[n]
    /\ \A n \in 1..Len(pipeline) :
          /\ pipeline[n] = Stage("analysis", "starting") =>
                /\ n > 1 /\ pipeline[n - 1] = Stage("sweep", "completed")
                /\ spc = "done" /\ sweep_exit = 0
          /\ pipeline[n] = Stage("report", "starting") =>
                /\ n > 1 /\ pipeline[n - 1] = Stage("analysis", "completed")
          /\ pipeline[n].event = "failed" =>
                /\ n = Len(pipeline)
                /\ dpc = "exit" /\ driver_exit = 1
          /\ pipeline[n] = Stage("sweep", "failed") => sweep_exit # 0
    /\ report =>
          \E n \in 1..Len(pipeline) : pipeline[n] = Stage("analysis", "completed")
    /\ (dpc = "exit" /\ driver_exit = 0) =>
          /\ report
          /\ pipeline[Len(pipeline)] = Stage("report", "completed")
    /\ dpc = "exit" => driver_exit \in {0, 1}
    /\ (spc # "setup" \/ sweep_log # <<>>) => Len(pipeline) >= 1
    /\ (dpc \in {"analysis", "report", "exit"} /\ pipeline # <<>>) => spc = "done"
C28_Witness ==
    /\ dpc = "exit" /\ driver_exit = 1 /\ ~report
    /\ pipeline = <<Stage("sweep", "starting"), Stage("sweep", "completed"),
                    Stage("analysis", "starting"), Stage("analysis", "failed")>>
    /\ Len(Entries("failed")) >= 1

=============================================================================
